---- MODULE Spec2Model ----
(***************************************************************************)
(* Workflow execution engine (src/src/workflows/engine.py) with the        *)
(* workflow data model of src/src/workflows/models.py.                     *)
(*                                                                         *)
(* SpecGraph runs WorkflowEngine._build_dependency_graph one scan of its   *)
(* while loop at a time, on every bounded step list.                       *)
(* Spec runs WorkflowEngine.execute on every bounded workflow: one action  *)
(* per stretch of code between two suspension points of the coroutine.     *)
(***************************************************************************)
EXTENDS Integers, Sequences, FiniteSets, TLC

\* ------------------------------------------------------------------ bounds
\* Longest workflow.steps list explored.
MaxSteps == 3

\* Calls of execute made on one engine.
MaxCalls == 2

\* Step identifiers (WorkflowStep.id); a depends_on entry may name any of
\* them, also one that no step of the list carries.
IdSeq == <<"A", "B", "C">>
StepIds == {IdSeq[i] : i \in 1..Len(IdSeq)}

IdIndex(id) == CHOOSE i \in 1..Len(IdSeq) : IdSeq[i] = id

\* ------------------------------------------------------------ data model
\* WorkflowStep, reduced to the fields the dependency graph reads.  The code
\* only tests membership of depends_on entries, so the list is kept as a set.
WorkflowStep == [id : StepIds, depends_on : SUBSET StepIds]

\* Step ids are compared by equality only, so every list is a renaming of one
\* whose ids are introduced in the order of IdSeq.
CanonicalIds(s) ==
    \A i \in 1..Len(s) :
        \A k \in 1..Len(IdSeq) :
            (k < IdIndex(s[i].id)) => (\E j \in 1..(i-1) : s[j].id = IdSeq[k])

StepLists ==
    UNION { { s \in [1..n -> WorkflowStep] : CanonicalIds(s) } : n \in 0..MaxSteps }

\* WorkflowStep.id is the "Unique step identifier" of its workflow.
UniqueIds(s) == \A i, j \in 1..Len(s) : (s[i].id = s[j].id) => (i = j)

\* The step lists of workflows that execute runs.
Workflows == {s \in StepLists : UniqueIds(s)}

\* ------------------------------------------------------------ value model
\* Python values that reach the engine, tagged by type.  Optional[str]
\* fields (StepResult.error, WorkflowResult.error, context.current_step) are
\* sets with at most one element; a str is the sequence of its pieces.
Null == [t |-> "null"]
Num(n) == [t |-> "num", v |-> n]
Dict(f) == [t |-> "dict", d |-> f]
\* An object whose truth value raises (bool() of a numpy array or DataFrame).
Ambiguous == [t |-> "ambiguous"]
\* A str of the form "{{ path }}"; path is the text split at the dots.
Template(path) == [t |-> "template", path |-> path]

EmptyDict == Dict([k \in {} |-> Null])
OutputDict == Dict([k \in {"x"} |-> Num(5)])

None == {}
Some(text) == {text}
\* str(x) inside an f-string.
Str(opt) == IF opt = None THEN <<"None">> ELSE CHOOSE text \in opt : TRUE

TruthRaises(v) == v.t = "ambiguous"

\* bool(v), for the values whose truth value is defined.
Truthy(v) ==
    CASE v.t = "null" -> FALSE
      [] v.t = "num" -> v.v /= 0
      [] v.t = "bool" -> v.v
      [] v.t = "str" -> v.v /= <<>>
      [] v.t = "dict" -> DOMAIN v.d /= {}
      [] OTHER -> TRUE

\* dict.get(key) with the default None.
Get(f, key) == IF key \in DOMAIN f THEN f[key] ELSE Null

\* An insertion into a dict kept as a function.
Put(f, key, value) == [k \in DOMAIN f \cup {key} |-> IF k = key THEN value ELSE f[k]]

WorkflowId == "wf"

\* The number of the call of execute that is followed statement by statement.
ThisCall == 1

\* Faulty variant: the entry is left in the registry.
RegistryAfterReturnKept(registry, key) == registry

\* Lines 134-135: the entry of workflow.id is deleted if there is one.
RegistryAfterReturn(registry, key) ==
    [k \in DOMAIN registry \ {key} |-> registry[k]]

FailurePolicies == {"stop", "continue", "rollback"}

\* WorkflowConfig.on_failure is a plain str (models.py line 67): the three
\* documented policies and one string that is none of them.
OnFailureStrings == FailurePolicies \cup {"ignore"}

\* WorkflowStep.inputs of the workflows explored: one literal, and for every
\* dependency d the template {{d.x}}.
StepInputs(step) ==
    [k \in {"lit"} \cup step.depends_on |->
        IF k = "lit" THEN Num(1) ELSE Template(<<k, "x">>)]

\* AgentResult values an agent's execute may return.
AgentSuccess(data) == [success |-> TRUE, data |-> data, error |-> None]
AgentFailure == [success |-> FALSE, data |-> Null, error |-> Some(<<"agent error">>)]
AgentResults == {AgentSuccess(OutputDict), AgentSuccess(EmptyDict),
                 AgentSuccess(Ambiguous), AgentFailure}

\* initial_input arguments: None, a dict, and a value that is no dict; the
\* dict is {"n": 0} ("chain") for the agents that increment n.
InitialInputs == {"none", "dict", "list", "chain"}
InitialInputsOf(kind) ==
    IF kind = "any" THEN {"none", "dict", "list"} ELSE {"none", "chain", "list"}
InitialDict == [k \in {<<"n">>, <<"A", "x">>} |-> IF k = <<"n">> THEN Num(0) ELSE Num(7)]

\* ------------------------------------------------------ template resolver
RECURSIVE WalkKeepingLeaf(_, _)
\* Faulty variant: a value that is no dict is returned as it is.
WalkKeepingLeaf(value, parts) ==
    IF parts = <<>> THEN value
    ELSE IF value.t = "dict" THEN WalkKeepingLeaf(Get(value.d, Head(parts)), Tail(parts))
    ELSE value

RECURSIVE Walk(_, _)
\* The for loop of _get_context_value over parts[1:].
Walk(value, parts) ==
    IF parts = <<>> THEN value
    ELSE IF value.t = "dict" THEN Walk(Get(value.d, Head(parts)), Tail(parts))
    ELSE Null

GetContextValue(path, outputs, vs) ==
    IF path[1] \in DOMAIN outputs
    THEN Walk(outputs[path[1]], Tail(path))
    ELSE Get(vs, path)

ResolveInputs(inputs, outputs, vs) ==
    [key \in DOMAIN inputs |->
        IF inputs[key].t = "template"
        THEN GetContextValue(inputs[key].path, outputs, vs)
        ELSE inputs[key]]

\* ---------------------------------------------------- condition evaluator
\* A str value, as the sequence of its characters.
Text(chars) == [t |-> "str", v |-> chars]
Bool(b) == [t |-> "bool", v |-> b]

\* The output of a skipped step (line 272).
SkippedOutput ==
    Dict([k \in {"skipped", "reason"} |->
            IF k = "skipped" THEN Bool(TRUE) ELSE Text(<<"condition_not_met">>)])

Digits == <<"0", "1", "2", "3", "4", "5", "6", "7", "8", "9">>

IsNumber(v) == v.t \in {"num", "bool"}

\* The number a bool or an int stands for (True is 1).
NumberOf(v) == IF v.t = "bool" THEN (IF v.v THEN 1 ELSE 0) ELSE v.v

\* a == b of Python on the values of the model.
PyEq(a, b) == IF IsNumber(a) /\ IsNumber(b) THEN NumberOf(a) = NumberOf(b) ELSE a = b

\* str(v), for None, bools, the numbers 0..9, strs and dicts of at most one
\* key whose value is one of these.
PyStr(v) ==
    LET Atom(w) ==
            CASE w.t = "null" -> <<"N", "o", "n", "e">>
              [] w.t = "bool" -> IF w.v THEN <<"T", "r", "u", "e">>
                                 ELSE <<"F", "a", "l", "s", "e">>
              [] w.t = "num" -> <<Digits[w.v + 1]>>
              [] OTHER -> w.v
    IN  IF v.t = "dict"
        THEN IF DOMAIN v.d = {} THEN <<"{", "}">>
             ELSE LET k == CHOOSE key \in DOMAIN v.d : TRUE IN
                  <<"{", "'", k, "'", ":", " ">> \o Atom(v.d[k]) \o <<"}">>
        ELSE Atom(v)

\* needle in hay, for two strs.
Contains(hay, needle) ==
    \E i \in 0..(Len(hay) - Len(needle)) :
        \A j \in 1..Len(needle) : hay[i + j] = needle[j]

\* float(v) is defined for numbers and for strs that spell a number (here:
\* one digit); it raises TypeError or ValueError on everything else.
FloatDefined(v) ==
    \/ IsNumber(v)
    \/ v.t = "str" /\ Len(v.v) = 1 /\ \E d \in 1..10 : Digits[d] = v.v[1]

FloatOf(v) ==
    IF IsNumber(v) THEN NumberOf(v)
    ELSE (CHOOSE d \in 1..10 : Digits[d] = v.v[1]) - 1

KnownOperators == {"equals", "not_equals", "contains", "greater_than", "less_than"}

\* The text of the exception _evaluate_condition raises on the resolved value,
\* or None when it returns: "x in str(value)" needs a str x (line 414), and
\* float() needs both sides to be numbers (lines 416 and 418).
ConditionException(condition, value) ==
    CASE condition.operator = "contains" /\ condition.value.t /= "str" ->
            Some(<<"'in <string>' requires string as left operand">>)
      [] condition.operator \in {"greater_than", "less_than"}
            /\ ~(FloatDefined(value) /\ FloatDefined(condition.value)) ->
            Some(<<"float() argument must be a string or a real number">>)
      [] OTHER -> None

\* Faulty variant: an operator that is not recognised lets the step run.
CompareUnknownAsTrue(condition, value) ==
    CASE condition.operator = "equals" -> PyEq(value, condition.value)
      [] condition.operator = "not_equals" -> ~PyEq(value, condition.value)
      [] condition.operator = "contains" -> Contains(PyStr(value), condition.value.v)
      [] condition.operator = "greater_than" -> FloatOf(value) > FloatOf(condition.value)
      [] condition.operator = "less_than" -> FloatOf(value) < FloatOf(condition.value)
      [] OTHER -> TRUE

\* The if/elif chain of _evaluate_condition on the resolved value, where it
\* raises nothing.
Compare(condition, value) ==
    CASE condition.operator = "equals" -> PyEq(value, condition.value)
      [] condition.operator = "not_equals" -> ~PyEq(value, condition.value)
      [] condition.operator = "contains" -> Contains(PyStr(value), condition.value.v)
      [] condition.operator = "greater_than" -> FloatOf(value) > FloatOf(condition.value)
      [] condition.operator = "less_than" -> FloatOf(value) < FloatOf(condition.value)
      [] OTHER -> FALSE

EvaluateCondition(condition, outputs, vs) ==
    Compare(condition, GetContextValue(condition.field, outputs, vs))

\* Agent types _create_agent knows, and one it does not.
KnownAgentTypes == {"task", "decision"}
AgentTypes == KnownAgentTypes \cup {"custom"}

\* WorkflowStep.timeout, in seconds, as it is printed.
StepTimeout == "300"

\* What the awaited agent.execute does: it returns an AgentResult, it is
\* still running when step.timeout elapses, or it raises.
AgentReturns(agent_result) == [kind |-> "return", result |-> agent_result]
AgentTimesOut == [kind |-> "timeout", result |-> Null]
AgentRaises == [kind |-> "raise", result |-> Null]
AgentEvents == {AgentReturns(r) : r \in AgentResults} \cup {AgentTimesOut, AgentRaises}

AgentExceptionText == <<"agent exception">>

\* ------------------------------------------------------ the chain workflow
\* The chain fetch -> enrich -> score, its steps under the ids A, B and C.
ChainSteps ==
    <<[id |-> "A", depends_on |-> {}],
      [id |-> "B", depends_on |-> {"A"}],
      [id |-> "C", depends_on |-> {"B"}]>>

\* initial_input = {"n": 0}.
ChainInput == [k \in {<<"n">>} |-> Num(0)]

\* step.inputs of the chain: n comes from the initial input for the first
\* step and from the step before for the others, written {{S.output.n}}
\* (form "output", as in the docstring of _get_context_value) or {{S.n}}
\* (form "direct").
InputForms == {"output", "direct"}

ChainStepInputs(form) ==
    [p \in 1..Len(ChainSteps) |->
        [k \in {"n"} |->
            IF p = 1 THEN Template(<<"n">>)
            ELSE IF form = "output" THEN Template(<<ChainSteps[p - 1].id, "output", "n">>)
            ELSE Template(<<ChainSteps[p - 1].id, "n">>)]]

\* The agents bound to the steps: "any" may do whatever an agent can do;
\* "increment" returns data {"n": n + 1} for its input n, "increment_wrapped"
\* data {"output": {"n": n + 1}}; n + 1 raises TypeError when n is None.
AgentKinds == {"any", "increment", "increment_wrapped"}

IncrementAgent(kind, inputs) ==
    IF "n" \in DOMAIN inputs /\ inputs["n"].t = "num"
    THEN LET incremented == Dict([k \in {"n"} |-> Num(inputs["n"].v + 1)]) IN
         AgentReturns(AgentSuccess(IF kind = "increment" THEN incremented
                                   ELSE Dict([k \in {"output"} |-> incremented])))
    ELSE AgentRaises

AgentOutcomes(kind, inputs) ==
    IF kind = "any" THEN AgentEvents ELSE {IncrementAgent(kind, inputs)}

AllAgentEvents ==
    AgentEvents \cup
    {IncrementAgent(kind, [k \in {"n"} |-> v]) :
        kind \in AgentKinds \ {"any"},
        v \in {Null} \cup {Num(n) : n \in 0..Len(ChainSteps)}}

\* Lines 266-281 of _execute_step, which run without suspension: the
\* condition check, the resolution of the inputs and the creation of the
\* agent.  condition is step.condition (Optional: a set of at most one).
StepEntry(id, condition, agent_type, inputs, outputs, vs) ==
    LET c == CHOOSE x \in condition : TRUE
        seen == GetContextValue(c.field, outputs, vs)
        Failed(text) ==
            [path |-> "failed", inputs |-> <<>>,
             result |-> [step_id |-> id, status |-> "failed", output |-> Null,
                         error |-> Some(text), execution_time |-> "elapsed"]]
    IN  IF condition /= None /\ ConditionException(c, seen) /= None
        THEN Failed(Str(ConditionException(c, seen)))
        ELSE IF condition /= None /\ ~EvaluateCondition(c, outputs, vs)
        THEN [path |-> "skipped", inputs |-> <<>>,
              result |-> [step_id |-> id, status |-> "completed",
                          output |-> SkippedOutput, error |-> None,
                          execution_time |-> "0.0"]]
        ELSE IF agent_type \notin KnownAgentTypes
        THEN Failed(<<"Unknown agent type:", agent_type>>)
        ELSE [path |-> "dispatched",
              inputs |-> ResolveInputs(inputs, outputs, vs),
              result |-> Null]

VARIABLES
    steps,        \* workflow.steps / the steps argument of the graph builder
    levels,       \* levels: list of batches, each a list of positions in steps
    completed,    \* completed: ids already placed by the graph builder
    pc,           \* position of the control flow
    on_failure,          \* workflow.config.on_failure
    parallel_execution,  \* workflow.config.parallel_execution
    step_inputs,         \* step.inputs, per position in steps
    agents,              \* what the agents bound to the steps do
    variables,           \* context.variables (initial_input or {})
    level_idx,           \* index in levels of the batch of the for loop
    in_flight,           \* slots of the batch whose _execute_step awaits its agent
    agent_inputs,        \* resolved inputs handed to the agent, per slot in flight
    task_results,        \* StepResult returned by _execute_step, per finished slot
    batch_results,       \* the dict returned by the batch executor, in key order
    merge_idx,           \* position of the "Store results" loop in batch_results
    result_status,       \* result.status
    result_error,        \* result.error (Optional[str])
    step_results,        \* result.step_results
    final_output,        \* result.final_output
    completed_steps,     \* context.completed_steps
    step_outputs,        \* context.step_outputs
    current_step,        \* context.current_step (Optional[str])
    running_workflows,   \* engine.running_workflows: key -> call whose context it holds
    calls,               \* the execute invocations made on one engine, by number
    executed,            \* history: positions of steps whose _execute_step began
    rollback_calls,      \* history: number of calls of _rollback_workflow
    trace,               \* history: per position, how its _execute_step went
    deadline_passed      \* history: workflow.config.timeout elapsed during the run

graphVars == <<steps, levels, completed>>
configVars == <<on_failure, parallel_execution, step_inputs, agents>>
batchVars == <<level_idx, in_flight, agent_inputs, task_results, batch_results, merge_idx>>
resultVars == <<result_status, result_error, step_results, final_output>>
contextVars == <<variables, completed_steps, step_outputs, current_step>>
historyVars == <<executed, rollback_calls, trace, deadline_passed>>
runVars == <<configVars, batchVars, resultVars, contextVars, running_workflows, calls, historyVars>>

vars == <<graphVars, pc, runVars>>

\* ------------------------------------------------- _build_dependency_graph
StepIdsOf(s, level) == {s[level[i]].id : i \in 1..Len(level)}

RECURSIVE ScanFrom(_, _, _)
\* The for loop of one scan: the positions, in list order, of the steps whose
\* id is not completed and whose dependencies all are.
ScanFrom(s, done, i) ==
    IF i > Len(s) THEN <<>>
    ELSE IF s[i].id \in done THEN ScanFrom(s, done, i + 1)
    ELSE IF \A dep \in s[i].depends_on : dep \in done
         THEN <<i>> \o ScanFrom(s, done, i + 1)
         ELSE ScanFrom(s, done, i + 1)

\* Faulty variant: line 170 left out, every step not yet completed is taken.
ScanLevelIgnoringDeps(s, done) ==
    SelectSeq([i \in 1..Len(s) |-> i], LAMBDA i : s[i].id \notin done)

\* Faulty variant: the scan stops at the first step it collects.
ScanLevelFirstOnly(s, done) ==
    LET found == ScanFrom(s, done, 1) IN
    IF found = <<>> THEN <<>> ELSE <<Head(found)>>

\* Faulty variant: line 166 left out, completed steps are collected again.
ScanLevelKeepingCompleted(s, done) ==
    SelectSeq([i \in 1..Len(s) |-> i], LAMBDA i : \A dep \in s[i].depends_on : dep \in done)

ScanLevel(s, done) == ScanFrom(s, done, 1)

RECURSIVE BuildLoop(_, _, _)
BuildLoop(s, lv, done) ==
    IF ~(Cardinality(done) < Len(s)) THEN lv
    ELSE LET current_level == ScanLevel(s, done) IN
         IF current_level = <<>> THEN lv
         ELSE BuildLoop(s, Append(lv, current_level),
                        done \cup StepIdsOf(s, current_level))

BuildDependencyGraph(s) == BuildLoop(s, <<>>, {})

\* One iteration of the while loop that finds a non-empty level.
GraphScan ==
    /\ pc = "build"
    /\ Cardinality(completed) < Len(steps)
    /\ LET current_level == ScanLevel(steps, completed) IN
         /\ current_level /= <<>>
         /\ levels' = Append(levels, current_level)
         /\ completed' = completed \cup StepIdsOf(steps, current_level)
    /\ UNCHANGED <<steps, pc, runVars>>

\* The iteration that finds no step: circular or missing dependencies.
GraphBreak ==
    /\ pc = "build"
    /\ Cardinality(completed) < Len(steps)
    /\ ScanLevel(steps, completed) = <<>>
    /\ pc' = "graph_broken"
    /\ UNCHANGED <<steps, levels, completed, runVars>>

\* The loop condition fails: every step is placed.
GraphReturn ==
    /\ pc = "build"
    /\ ~(Cardinality(completed) < Len(steps))
    /\ pc' = "graph_done"
    /\ UNCHANGED <<steps, levels, completed, runVars>>

\* The state before execute is called, apart from the workflow and pc.
RunIdle ==
    /\ level_idx = 0
    /\ in_flight = {}
    /\ agent_inputs = <<>>
    /\ task_results = <<>>
    /\ batch_results = <<>>
    /\ merge_idx = 0
    /\ result_status = "none"
    /\ result_error = None
    /\ step_results = <<>>
    /\ final_output = Null
    /\ variables = <<>>
    /\ completed_steps = <<>>
    /\ step_outputs = <<>>
    /\ current_step = None
    /\ running_workflows = <<>>
    /\ calls = <<>>
    /\ executed = {}
    /\ trace = <<>>
    /\ rollback_calls = 0
    /\ deadline_passed = FALSE

InitGraph ==
    /\ steps \in StepLists
    /\ levels = <<>>
    /\ completed = {}
    /\ pc = "build"
    /\ on_failure = "stop"
    /\ parallel_execution = FALSE
    /\ step_inputs = <<>>
    /\ agents = "any"
    /\ RunIdle

NextGraph == GraphScan \/ GraphBreak \/ GraphReturn

SpecGraph == InitGraph /\ [][NextGraph]_vars

\* The builder is synchronous code: once called it runs on.
SpecGraphFair == SpecGraph /\ WF_vars(NextGraph)

GraphReturned == pc \in {"graph_done", "graph_broken"}

\* ------------------------------------------------------------------ execute
\* Lines 47-58.  WorkflowExecutionContext(variables=initial_input or {}) is
\* validated by pydantic before the try block is entered: a truthy value that
\* is no dict raises there, past every handler of execute.
Execute(initial_input) ==
    /\ pc = "idle"
    /\ initial_input \in InitialInputsOf(agents)
    /\ IF initial_input = "list"
       THEN /\ pc' = "raised"
            /\ UNCHANGED <<variables, running_workflows, calls, result_status>>
       ELSE /\ variables' = CASE initial_input = "none" -> <<>>
                                [] initial_input = "chain" -> ChainInput
                                [] OTHER -> InitialDict
            /\ running_workflows' = Put(running_workflows, WorkflowId, ThisCall)
            /\ UNCHANGED calls
            /\ result_status' = "running"
            /\ pc' = "graph"
    /\ UNCHANGED <<graphVars, configVars, batchVars, historyVars,
                   result_error, step_results, final_output,
                   completed_steps, step_outputs, current_step>>

\* Line 69.
ExecuteBuildGraph ==
    /\ pc = "graph"
    /\ levels' = BuildDependencyGraph(steps)
    /\ completed' = UNION {StepIdsOf(steps, levels'[k]) : k \in 1..Len(levels')}
    /\ level_idx' = 1
    /\ pc' = "loop"
    /\ UNCHANGED <<steps, configVars, in_flight, agent_inputs, task_results,
                   batch_results, merge_idx, resultVars, contextVars,
                   running_workflows, calls, historyVars>>

\* Line 72: the for loop takes the next batch, or is exhausted.
NextBatch ==
    /\ pc = "loop"
    /\ IF level_idx <= Len(levels)
       THEN /\ pc' = "batch"
            /\ in_flight' = {}
            /\ agent_inputs' = <<>>
            /\ task_results' = <<>>
       ELSE /\ pc' = "final"
            /\ UNCHANGED <<in_flight, agent_inputs, task_results>>
    /\ UNCHANGED <<graphVars, configVars, level_idx, batch_results, merge_idx,
                   resultVars, contextVars, running_workflows, calls, historyVars>>

\* Faulty variant: the batches are taken from the last to the first.
step_batch_reversed == levels[Len(levels) + 1 - level_idx]

step_batch == levels[level_idx]

\* Faulty variant: the flag of the config is not read.
UseParallelIgnoringFlag == Len(step_batch) > 1

\* Line 73.
UseParallel == parallel_execution /\ Len(step_batch) > 1

BegunSlots == in_flight \cup DOMAIN task_results

\* Lines 291-306: the StepResult built from the AgentResult.
StepResultOf(id, agent_result) ==
    IF agent_result.success
    THEN [step_id |-> id, status |-> "completed", output |-> agent_result.data,
          error |-> None, execution_time |-> "elapsed"]
    ELSE [step_id |-> id, status |-> "failed", output |-> Null,
          error |-> agent_result.error, execution_time |-> "elapsed"]

\* Faulty variant: the timeout error names the timeout of the workflow.
StepOutcomeNamingWorkflowTimeout(id, event) ==
    CASE event.kind = "return" -> StepResultOf(id, event.result)
      [] event.kind = "timeout" ->
            [step_id |-> id, status |-> "failed", output |-> Null,
             error |-> Some(<<"Step execution timed out after", "config.timeout", "seconds">>),
             execution_time |-> "elapsed"]
      [] OTHER ->
            [step_id |-> id, status |-> "failed", output |-> Null,
             error |-> Some(AgentExceptionText), execution_time |-> "elapsed"]

\* Faulty variant: an exception of the agent is taken for a success.
StepOutcomeSwallowingException(id, event) ==
    CASE event.kind = "return" -> StepResultOf(id, event.result)
      [] event.kind = "timeout" ->
            [step_id |-> id, status |-> "failed", output |-> Null,
             error |-> Some(<<"Step execution timed out after", StepTimeout, "seconds">>),
             execution_time |-> "elapsed"]
      [] OTHER ->
            [step_id |-> id, status |-> "completed", output |-> Null,
             error |-> None, execution_time |-> "elapsed"]

\* Lines 284-328: what _execute_step returns once the awaited agent is done.
\* wait_for raises asyncio.TimeoutError at step.timeout (lines 308-314); any
\* other exception is caught at line 316.
StepOutcome(id, event) ==
    CASE event.kind = "return" -> StepResultOf(id, event.result)
      [] event.kind = "timeout" ->
            [step_id |-> id, status |-> "failed", output |-> Null,
             error |-> Some(<<"Step execution timed out after", StepTimeout, "seconds">>),
             execution_time |-> "elapsed"]
      [] OTHER ->
            [step_id |-> id, status |-> "failed", output |-> Null,
             error |-> Some(AgentExceptionText), execution_time |-> "elapsed"]

NoEvent == [kind |-> "none", result |-> Null]

\* step.condition of the steps of executed workflows: none, or one that
\* holds exactly when the run was started with InitialDict.
EngineConditions == {None, Some([field |-> <<"n">>, operator |-> "equals", value |-> Num(0)])}

\* _execute_step up to its await (lines 256-287) for slot m of the batch.
\* asyncio.gather starts the coroutines in list order, each running to its
\* first suspension; the sequential executor awaits each before the next.
\* A step that is skipped, or fails before its agent is awaited, returns
\* without suspension.  condition and agent_type are fields of the step that
\* nothing reads before this point.
StepBegin(m, condition, agent_type) ==
    /\ pc = "batch"
    /\ m = Cardinality(BegunSlots) + 1
    /\ m <= Len(step_batch)
    /\ UseParallel \/ in_flight = {}
    /\ LET step == steps[step_batch[m]]
           entry == StepEntry(step.id, condition, agent_type, step_inputs[step_batch[m]],
                              step_outputs, variables) IN
         /\ current_step' = Some(step.id)
         /\ trace' = Put(trace, step_batch[m], [path |-> entry.path, event |-> NoEvent])
         /\ IF entry.path = "dispatched"
            THEN /\ agent_inputs' = Put(agent_inputs, m, entry.inputs)
                 /\ in_flight' = in_flight \cup {m}
                 /\ UNCHANGED task_results
            ELSE /\ task_results' = Put(task_results, m, entry.result)
                 /\ UNCHANGED <<agent_inputs, in_flight>>
    /\ executed' = executed \cup {step_batch[m]}
    /\ UNCHANGED <<graphVars, pc, configVars, level_idx, batch_results,
                   merge_idx, resultVars, variables, completed_steps, step_outputs,
                   running_workflows, calls, rollback_calls, deadline_passed>>

\* The await of slot m ends and _execute_step returns its StepResult.
StepEnd(m, event) ==
    /\ pc = "batch"
    /\ m \in in_flight
    /\ event \in AgentOutcomes(agents, agent_inputs[m])
    /\ task_results' = Put(task_results, m, StepOutcome(steps[step_batch[m]].id, event))
    /\ in_flight' = in_flight \ {m}
    /\ agent_inputs' = [k \in DOMAIN agent_inputs \ {m} |-> agent_inputs[k]]
    /\ trace' = Put(trace, step_batch[m], [path |-> "dispatched", event |-> event])
    /\ UNCHANGED <<graphVars, pc, configVars, level_idx, batch_results, merge_idx,
                   resultVars, contextVars, running_workflows, calls, executed,
                   rollback_calls, deadline_passed>>

RECURSIVE DictOfBatchUntilFailure(_, _, _)
\* Faulty variant: nothing is returned for the steps after a failed one.
DictOfBatchUntilFailure(ids, results, m) ==
    IF m = 0 THEN <<>>
    ELSE LET before == DictOfBatchUntilFailure(ids, results, m - 1) IN
         IF \E n \in 1..Len(before) : before[n].value.status = "failed"
         THEN before
         ELSE Append(before, [key |-> ids[m], value |-> results[m]])

RECURSIVE DictOfBatchParallelReversed(_, _, _)
\* Faulty variant: the parallel executor returns its items last step first.
DictOfBatchParallelReversed(ids, results, m) ==
    IF m = 0 THEN <<>>
    ELSE LET before == DictOfBatchParallelReversed(ids, results, m - 1)
             item == [key |-> ids[m], value |-> results[m]] IN
         IF parallel_execution /\ Len(ids) > 1
         THEN <<item>> \o before
         ELSE Append(before, item)

RECURSIVE DictOfBatch(_, _, _)
\* The dict built over zip(steps, results) (lines 208-215) or by
\* results[step.id] = result (lines 233-236), as the list of its items: a key
\* keeps the place of its first insertion and the value of its last.
DictOfBatch(ids, results, m) ==
    IF m = 0 THEN <<>>
    ELSE LET before == DictOfBatch(ids, results, m - 1)
             item == [key |-> ids[m], value |-> results[m]] IN
         IF \E n \in 1..Len(before) : before[n].key = ids[m]
         THEN [n \in 1..Len(before) |-> IF before[n].key = ids[m] THEN item ELSE before[n]]
         ELSE Append(before, item)

\* The batch executor returns: gather has joined every task (line 206), or the
\* sequential loop has awaited the last step (line 238).
BatchReturn ==
    /\ pc = "batch"
    /\ in_flight = {}
    /\ DOMAIN task_results = 1..Len(step_batch)
    /\ batch_results' =
          DictOfBatch([m \in 1..Len(step_batch) |-> steps[step_batch[m]].id],
                      task_results, Len(step_batch))
    /\ task_results' = <<>>
    /\ merge_idx' = 1
    /\ pc' = "merge"
    /\ UNCHANGED <<graphVars, configVars, level_idx, in_flight, agent_inputs,
                   resultVars, contextVars, running_workflows, calls, historyVars>>

\* Faulty variant: "stop" is not recognised.
FailureActionWithoutStop(step_result) ==
    IF step_result.status = "failed" /\ on_failure = "rollback" THEN "rollback" ELSE "none"

\* Faulty variant: every failure stops the run, whatever the policy.
FailureActionAlwaysStop(step_result) ==
    IF step_result.status = "failed" THEN "stop" ELSE "none"

\* Faulty variant: "rollback" stops the run without calling the hook.
FailureActionWithoutHook(step_result) ==
    IF step_result.status = "failed" /\ on_failure \in {"stop", "rollback"}
    THEN "stop" ELSE "none"

\* Lines 93-98: what the failure check does with a merged result.
FailureAction(step_result) ==
    IF step_result.status = "failed"
    THEN IF on_failure = "stop" THEN "stop"
         ELSE IF on_failure = "rollback" THEN "rollback"
         ELSE "none"
    ELSE "none"

\* Faulty variant: the id of a merged step is not appended.
CompletedStepsAfterMergeUnchanged(done, step_id) == done

\* Line 87.
CompletedStepsAfterMerge(done, step_id) == Append(done, step_id)

\* One iteration of the "Store results" loop, lines 85-102.
MergeItem ==
    /\ pc = "merge"
    /\ merge_idx <= Len(batch_results)
    /\ LET step_id == batch_results[merge_idx].key
           step_result == batch_results[merge_idx].value IN
         /\ step_results' = Put(step_results, step_id, step_result)
         /\ completed_steps' = CompletedStepsAfterMerge(completed_steps, step_id)
         /\ IF TruthRaises(step_result.output)
            THEN \* line 89 raises; the exception leaves the try block
                 /\ pc' = "except"
                 /\ UNCHANGED <<step_outputs, result_status, result_error, merge_idx>>
            ELSE /\ step_outputs' = IF Truthy(step_result.output)
                                    THEN Put(step_outputs, step_id, step_result.output)
                                    ELSE step_outputs
                 /\ IF FailureAction(step_result) = "stop"
                    THEN /\ result_status' = "failed"
                         /\ result_error' =
                               Some(<<"Step", step_id, "failed:">> \o Str(step_result.error))
                         /\ pc' = "final"
                         /\ UNCHANGED merge_idx
                    ELSE IF FailureAction(step_result) = "rollback"
                    THEN /\ pc' = "rollback"
                         /\ UNCHANGED <<result_status, result_error, merge_idx>>
                    ELSE /\ merge_idx' = merge_idx + 1
                         /\ UNCHANGED <<pc, result_status, result_error>>
    /\ UNCHANGED <<graphVars, configVars, level_idx, in_flight, agent_inputs,
                   task_results, batch_results, final_output, variables, current_step,
                   running_workflows, calls, historyVars>>

\* The "Store results" loop is exhausted; line 104 finds the run not failed.
MergeEnd ==
    /\ pc = "merge"
    /\ merge_idx > Len(batch_results)
    /\ level_idx' = level_idx + 1
    /\ pc' = "loop"
    /\ UNCHANGED <<graphVars, configVars, in_flight, agent_inputs, task_results,
                   batch_results, merge_idx, resultVars, contextVars,
                   running_workflows, calls, historyVars>>

\* Line 99: _rollback_workflow (lines 422-436) logs and returns.
RollbackWorkflow ==
    /\ pc = "rollback"
    /\ rollback_calls' = rollback_calls + 1
    /\ pc' = "rolled_back"
    /\ UNCHANGED <<graphVars, configVars, batchVars, resultVars, contextVars,
                   running_workflows, calls, executed, trace, deadline_passed>>

\* Lines 100-105.
RollbackFail ==
    /\ pc = "rolled_back"
    /\ result_status' = "failed"
    /\ result_error' =
          Some(<<"Workflow rolled back due to step", batch_results[merge_idx].key, "failure">>)
    /\ pc' = "final"
    /\ UNCHANGED <<graphVars, configVars, batchVars, step_results, final_output,
                   contextVars, running_workflows, calls, historyVars>>

\* Faulty variant: line 108 does not look at the status.
RunSucceededAlways(status) == TRUE

\* Line 108.
RunSucceeded(status) == status /= "failed"

\* Lines 107-113.
SetFinalStatus ==
    /\ pc = "final"
    /\ IF RunSucceeded(result_status)
       THEN /\ result_status' = "completed"
            /\ final_output' = IF steps /= <<>>
                               THEN Get(step_outputs, steps[Len(steps)].id)
                               ELSE final_output
       ELSE UNCHANGED <<result_status, final_output>>
    /\ pc' = "finally"
    /\ UNCHANGED <<graphVars, configVars, batchVars, result_error, step_results,
                   contextVars, running_workflows, calls, historyVars>>

\* Line 122, for the ValueError of line 89.
ExecutionFailedError == Some(<<"Workflow execution failed:", "truth value is ambiguous">>)

\* Line 117.
WorkflowTimeoutError == Some(<<"Workflow execution timed out after", "config.timeout", "seconds">>)

\* Lines 120-128: except Exception.
ExceptionHandler ==
    /\ pc = "except"
    /\ result_status' = "failed"
    /\ result_error' = ExecutionFailedError
    /\ pc' = "finally"
    /\ UNCHANGED <<graphVars, configVars, batchVars, step_results, final_output,
                   contextVars, running_workflows, calls, historyVars>>

\* Lines 130-144: the finally block, and the return.
Finally ==
    /\ pc = "finally"
    /\ running_workflows' = RegistryAfterReturn(running_workflows, WorkflowId)
    /\ UNCHANGED calls
    /\ pc' = "done"
    /\ UNCHANGED <<graphVars, configVars, batchVars, resultVars, contextVars, historyVars>>

\* workflow.config.timeout elapses.  Time passes only while the coroutine is
\* suspended, which it is only while it awaits agents.  No code of execute
\* arms a timer on it, so nothing else changes.
DeadlinePasses ==
    /\ pc = "batch"
    /\ in_flight /= {}
    /\ ~deadline_passed
    /\ deadline_passed' = TRUE
    /\ UNCHANGED <<graphVars, pc, configVars, batchVars, resultVars, contextVars,
                   running_workflows, calls, executed, rollback_calls, trace>>

Init ==
    /\ \/ /\ steps \in Workflows
          /\ step_inputs = [p \in 1..Len(steps) |-> StepInputs(steps[p])]
          /\ agents = "any"
       \/ /\ steps = ChainSteps
          /\ step_inputs \in {ChainStepInputs(form) : form \in InputForms}
          /\ agents \in AgentKinds \ {"any"}
    /\ levels = <<>>
    /\ completed = {}
    /\ pc = "idle"
    /\ on_failure \in OnFailureStrings
    /\ parallel_execution \in BOOLEAN
    /\ RunIdle

Next ==
    \/ \E initial_input \in InitialInputs : Execute(initial_input)
    \/ ExecuteBuildGraph
    \/ NextBatch
    \/ \E m \in 1..MaxSteps : \E condition \in EngineConditions :
          \E agent_type \in KnownAgentTypes : StepBegin(m, condition, agent_type)
    \/ \E m \in 1..MaxSteps : \E event \in AllAgentEvents : StepEnd(m, event)
    \/ BatchReturn
    \/ MergeItem
    \/ MergeEnd
    \/ RollbackWorkflow
    \/ RollbackFail
    \/ SetFinalStatus
    \/ ExceptionHandler
    \/ Finally
    \/ DeadlinePasses

Spec == Init /\ [][Next]_vars

Returned == pc = "done"

\* ----------------------------------------- _execute_step and _resolve_inputs
\* One context on which results of step "A" are stored as execute stores
\* them, inputs are resolved, and step "B" is executed, one call at a time.
\* trace holds the last calls: what was passed and what was returned.
NestedDict == Dict([k \in {"output"} |-> OutputDict])

StoredStepId == "A"
CalledStepId == "B"

\* StepResults of step A that execute may come to store.
StoredResults ==
    {StepResultOf(StoredStepId, r) :
        r \in {AgentSuccess(OutputDict), AgentSuccess(EmptyDict), AgentSuccess(Num(5)),
               AgentSuccess(NestedDict), AgentFailure}}

TemplatePaths ==
    {<<"A">>, <<"A", "x">>, <<"A", "y">>, <<"A", "x", "y">>, <<"A", "output">>,
     <<"A", "output", "x">>, <<"B", "x">>, <<"n">>, <<"missing">>}

\* An inputs mapping: one literal and one value, literal or template.
InputsOf(value) == [k \in {"lit", "in"} |-> IF k = "lit" THEN Num(1) ELSE value]
InputMappings == {InputsOf(v) : v \in {Num(2)} \cup {Template(path) : path \in TemplatePaths}}

StepInputMappings ==
    {InputsOf(v) : v \in {Num(2), Template(<<"A", "x">>), Template(<<"A", "output", "x">>)}}

Conditions ==
    {None} \cup
    {Some([field |-> f, operator |-> op, value |-> v]) :
        f \in {<<"n">>, <<"A", "x">>, <<"missing">>},
        op \in KnownOperators \cup {"matches"},
        v \in {Num(0), Num(5), Text(<<"5">>)}}

stepIdleVars ==
    <<graphVars, configVars, level_idx, batch_results, merge_idx, result_status,
      result_error, final_output, running_workflows, calls, executed, rollback_calls,
      deadline_passed>>

\* Lines 86-90 of execute for a StepResult of step A.
StoreResult(step_result) ==
    /\ pc = "step_idle"
    /\ step_result.step_id \notin DOMAIN step_results
    /\ step_results' = Put(step_results, step_result.step_id, step_result)
    /\ completed_steps' = Append(completed_steps, step_result.step_id)
    /\ step_outputs' = IF Truthy(step_result.output)
                       THEN Put(step_outputs, step_result.step_id, step_result.output)
                       ELSE step_outputs
    /\ trace' = <<>>
    /\ UNCHANGED <<stepIdleVars, pc, variables, current_step, in_flight,
                   agent_inputs, task_results>>

LastTwo(seq) == IF Len(seq) > 2 THEN Tail(seq) ELSE seq

\* Faulty variant: the resolved values are kept in context.variables.
ResolveInputsCallCaching(inputs) ==
    /\ pc \in {"step_idle", "resolved"}
    /\ pc' = "resolved"
    /\ LET resolved == ResolveInputs(inputs, step_outputs, variables) IN
         /\ trace' = LastTwo(Append(trace,
                                    [call |-> "resolve", inputs |-> inputs,
                                     resolved |-> resolved]))
         /\ variables' = IF inputs["in"].t = "template"
                         THEN Put(variables, inputs["in"].path, Num(1))
                         ELSE variables
    /\ UNCHANGED <<stepIdleVars, step_results, completed_steps,
                   step_outputs, current_step, in_flight, agent_inputs, task_results>>

\* A call of _resolve_inputs (lines 348-372): it reads the context and
\* builds a new dict.
ResolveInputsCall(inputs) ==
    /\ pc \in {"step_idle", "resolved"}
    /\ pc' = "resolved"
    /\ LET resolved == ResolveInputs(inputs, step_outputs, variables) IN
         trace' = LastTwo(Append(trace,
                                 [call |-> "resolve", inputs |-> inputs,
                                  resolved |-> resolved]))
    /\ UNCHANGED <<stepIdleVars, step_results, contextVars, in_flight,
                   agent_inputs, task_results>>

\* A call of _execute_step for step B, up to its return or its await.
ExecuteStepBegin(condition, agent_type, inputs) ==
    /\ pc = "step_idle"
    /\ LET entry == StepEntry(CalledStepId, condition, agent_type, inputs,
                              step_outputs, variables) IN
         /\ current_step' = Some(CalledStepId)
         /\ trace' = <<[call |-> "step", condition |-> condition,
                        agent_type |-> agent_type, inputs |-> inputs,
                        path |-> entry.path, event |-> NoEvent]>>
         /\ IF entry.path = "dispatched"
            THEN /\ agent_inputs' = <<entry.inputs>>
                 /\ in_flight' = {1}
                 /\ task_results' = <<>>
                 /\ pc' = "step_await"
            ELSE /\ task_results' = <<entry.result>>
                 /\ agent_inputs' = <<>>
                 /\ pc' = "step_returned"
                 /\ UNCHANGED in_flight
    /\ UNCHANGED <<stepIdleVars, step_results, variables, completed_steps, step_outputs>>

\* The await of _execute_step ends and the call returns.
ExecuteStepEnd(event) ==
    /\ pc = "step_await"
    /\ task_results' = <<StepOutcome(CalledStepId, event)>>
    /\ trace' = <<[trace[1] EXCEPT !.event = event]>>
    /\ in_flight' = {}
    /\ agent_inputs' = <<>>
    /\ pc' = "step_returned"
    /\ UNCHANGED <<stepIdleVars, step_results, contextVars>>

\* The caller has taken what the call returned.
CallTaken ==
    /\ pc \in {"step_returned", "resolved"}
    /\ pc' = "step_idle"
    /\ trace' = <<>>
    /\ task_results' = <<>>
    /\ UNCHANGED <<stepIdleVars, step_results, contextVars, in_flight, agent_inputs>>

InitStep ==
    /\ steps = <<>>
    /\ levels = <<>>
    /\ completed = {}
    /\ on_failure \in FailurePolicies
    /\ parallel_execution = FALSE
    /\ step_inputs = <<>>
    /\ agents = "any"
    /\ level_idx = 0
    /\ in_flight = {}
    /\ agent_inputs = <<>>
    /\ task_results = <<>>
    /\ batch_results = <<>>
    /\ merge_idx = 0
    /\ result_status = "running"
    /\ result_error = None
    /\ step_results = <<>>
    /\ final_output = Null
    /\ variables \in {<<>>, InitialDict}
    /\ completed_steps = <<>>
    /\ step_outputs = <<>>
    /\ current_step = None
    /\ running_workflows = Put(<<>>, WorkflowId, ThisCall)
    /\ calls = <<>>
    /\ executed = {}
    /\ trace = <<>>
    /\ rollback_calls = 0
    /\ deadline_passed = FALSE
    /\ pc = "step_idle"

NextStep ==
    \/ \E step_result \in StoredResults : StoreResult(step_result)
    \/ \E inputs \in InputMappings : ResolveInputsCall(inputs)
    \/ \E condition \in Conditions : \E agent_type \in AgentTypes :
          \E inputs \in StepInputMappings :
              ExecuteStepBegin(condition, agent_type, inputs)
    \/ \E event \in AgentEvents : ExecuteStepEnd(event)
    \/ CallTaken

SpecStep == InitStep /\ [][NextStep]_vars

\* ------------------------------------------------ properties of the graph
ListIds(s) == {s[i].id : i \in 1..Len(s)}

DepsNamed(s) == \A i \in 1..Len(s) : s[i].depends_on \subseteq ListIds(s)

\* Direct dependencies of an id: those of every step carrying it.
DepsOfId(s, id) == UNION {s[i].depends_on : i \in {j \in 1..Len(s) : s[j].id = id}}

RECURSIVE ReachFrom(_, _, _)
\* Ids reachable from the set ids through at most n more dependency edges.
ReachFrom(s, ids, n) ==
    IF n = 0 THEN ids
    ELSE ReachFrom(s, ids \cup UNION {DepsOfId(s, id) : id \in ids}, n - 1)

Acyclic(s) ==
    \A id \in StepIds : id \notin ReachFrom(s, DepsOfId(s, id), Len(IdSeq))

\* The (level, slot) places at which position i of steps occurs in levels.
PlacesOf(i) ==
    {<<k, m>> \in (1..Len(levels)) \X (1..MaxSteps + 1) :
        m <= Len(levels[k]) /\ levels[k][m] = i}

LevelsOf(i) == {p[1] : p \in PlacesOf(i)}

TopologicalLevels ==
    \A i \in 1..Len(steps) :
        /\ Cardinality(PlacesOf(i)) = 1
        /\ \A j \in 1..Len(steps) :
              (steps[j].id \in steps[i].depends_on) =>
                  \A ki \in LevelsOf(i) : \A kj \in LevelsOf(j) : ki > kj

\* C1: for every acyclic list of steps with pairwise distinct ids (the "Unique
\* step identifier" of WorkflowStep.id) whose depends_on ids all name steps of
\* the list, the graph builder returns levels in which every step appears in
\* exactly one level, strictly after the level of each of its dependencies.
C1_TopologicalLevels ==
    (GraphReturned /\ UniqueIds(steps) /\ Acyclic(steps) /\ DepsNamed(steps))
        => TopologicalLevels

\* A diamond: three distinct steps, two levels deep or more, all placed.
C1_Witness ==
    /\ GraphReturned /\ UniqueIds(steps) /\ Acyclic(steps) /\ DepsNamed(steps)
    /\ Len(steps) = MaxSteps
    /\ Len(levels) >= 2
    /\ \E i \in 1..Len(steps) : Cardinality(steps[i].depends_on) >= 2

\* Ids placed in the levels before level k (levels are counted from 0, so
\* level k of the claim is levels[k + 1]).
IdsBefore(k) == UNION {StepIdsOf(steps, levels[n]) : n \in 1..k}

Satisfied(i, k) == steps[i].depends_on \subseteq IdsBefore(k)

MaximalLevels ==
    \A i \in 1..Len(steps) :
        \A k \in 0..Len(levels) :
            ((k + 1) \in LevelsOf(i)) <=>
                (Satisfied(i, k) /\ \A n \in 0..(k - 1) : ~Satisfied(i, n))

\* C2: levels are maximal.  For a list of steps with pairwise distinct ids, a
\* step is placed in level k exactly when k is the smallest index such that all
\* of its dependencies lie in levels 0..k-1: steps without dependencies are all
\* in level 0, steps with the same dependencies share a level, and a step
\* whose dependencies are never all placed is in no level.
C2_MaximalLevels == (GraphReturned /\ UniqueIds(steps)) => MaximalLevels

\* Two steps sharing one dependency share level 1; a step is left unplaced.
C2_Witness ==
    /\ GraphReturned /\ UniqueIds(steps)
    /\ Len(levels) >= 2
    /\ \E i, j \in 1..Len(steps) :
          /\ i /= j
          /\ steps[i].depends_on = steps[j].depends_on
          /\ steps[i].depends_on /= {}
          /\ 2 \in LevelsOf(i) /\ 2 \in LevelsOf(j)

\* ------------------------------------------------ properties of execute
Range(seq) == {seq[i] : i \in 1..Len(seq)}

LevelPositions(k) == {levels[k][m] : m \in 1..Len(levels[k])}

\* Ids of the steps that ended failed: in a StepResult returned by
\* _execute_step, returned by the batch executor, or merged.
FailedIds ==
    {task_results[m].step_id : m \in {n \in DOMAIN task_results : task_results[n].status = "failed"}}
    \cup {batch_results[m].key : m \in {n \in 1..Len(batch_results) :
                                          batch_results[n].value.status = "failed"}}
    \cup {id \in DOMAIN step_results : step_results[id].status = "failed"}

MergedFailed == \E id \in DOMAIN step_results : step_results[id].status = "failed"

FailedLevels ==
    {k \in 1..Len(levels) : \E q \in LevelPositions(k) : steps[q].id \in FailedIds}

ExceptionCaught == result_error = ExecutionFailedError

\* C3: when _execute_step begins for a step (and while it awaits its agent),
\* every id of the step's depends_on is in context.completed_steps and has a
\* completed or failed StepResult in step_results.
C3_DependenciesRecorded ==
    \A m \in in_flight :
        \A dep \in steps[step_batch[m]].depends_on :
            /\ dep \in Range(completed_steps)
            /\ dep \in DOMAIN step_results
            /\ step_results[dep].status \in {"completed", "failed"}

\* Two steps run concurrently on top of a dependency that failed.
C3_Witness ==
    /\ pc = "batch"
    /\ parallel_execution
    /\ Cardinality(in_flight) >= 2
    /\ \E m \in in_flight :
          \E dep \in steps[step_batch[m]].depends_on :
              dep \in DOMAIN step_results /\ step_results[dep].status = "failed"

\* C4: levels run in the order of the graph builder and level boundaries are
\* barriers: a step of a level has begun only if the for loop has reached that
\* level and every step of every earlier level has begun, finished, and had its
\* result returned by the batch executor and merged.
C4_LevelBarrier ==
    \A p \in executed :
        \A k \in LevelsOf(p) :
            /\ k <= level_idx
            /\ \A i \in 1..(k - 1) :
                  \A q \in LevelPositions(i) :
                      q \in executed /\ steps[q].id \in DOMAIN step_results

\* A second level in flight after a first level of two concurrent steps.
C4_Witness ==
    /\ pc = "batch"
    /\ parallel_execution
    /\ level_idx = 2
    /\ in_flight /= {}
    /\ Len(levels[1]) >= 2

\* C5: with on_failure = "stop", once a step of a level has ended failed no
\* step of a later level ever begins, and execute returns status failed.
C5_StopHalts ==
    (on_failure = "stop") =>
        /\ \A k \in FailedLevels :
              \A p \in executed : \A j \in LevelsOf(p) : j <= k
        /\ (Returned /\ FailedLevels /= {}) => (result_status = "failed")

\* A failed and B depends on A: the run returned without B.
C5_Witness ==
    /\ Returned
    /\ on_failure = "stop"
    /\ 1 \in FailedLevels
    /\ \E q \in 1..Len(steps) :
          /\ q \notin executed
          /\ 2 \in LevelsOf(q)
          /\ steps[q].depends_on \cap FailedIds /= {}

AllLevelsRun ==
    \A k \in 1..Len(levels) :
        \A q \in LevelPositions(k) :
            q \in executed /\ steps[q].id \in DOMAIN step_results

\* With on_failure = "continue" failed steps do not stop the run.
ContinueRunsAll ==
    (on_failure = "continue" /\ Returned /\ ~ExceptionCaught) =>
        (result_status = "completed" /\ AllLevelsRun)

\* The inputs of the step at position p that are templates on the output of
\* a step whose StepResult is failed.
TemplatesOfFailed(p) ==
    {key \in DOMAIN step_inputs[p] :
        /\ step_inputs[p][key].t = "template"
        /\ step_inputs[p][key].path[1] \in DOMAIN step_results
        /\ step_results[step_inputs[p][key].path[1]].status = "failed"}

C7_State ==
    /\ rollback_calls <= 1
    /\ (rollback_calls = 1) => (on_failure = "rollback" /\ MergedFailed)
    /\ (on_failure = "rollback" /\ MergedFailed /\ pc /= "rollback") => (rollback_calls = 1)
    /\ (pc = "rolled_back") => (result_status = "running")
    /\ (on_failure = "rollback" /\ result_status = "failed" /\ ~ExceptionCaught)
          => (rollback_calls = 1)

C7_Step ==
    (rollback_calls >= 1) =>
        /\ step_results' = step_results
        /\ completed_steps' = completed_steps
        /\ executed' = executed
        /\ level_idx' = level_idx

\* C7: with on_failure = "rollback", a merged failed result has
\* _rollback_workflow called exactly once, while the status is still running;
\* from then on no result is merged, no step begins and no level is taken, so
\* the results recorded before stay in step_results.
C7_Rollback == []C7_State /\ [][C7_Step]_vars

\* A run rolled back after its first level, with levels left unexecuted.
C7_Witness ==
    /\ Returned
    /\ on_failure = "rollback"
    /\ rollback_calls = 1
    /\ result_status = "failed"
    /\ MergedFailed
    /\ \E id \in DOMAIN step_results : step_results[id].status = "completed"
    /\ ~AllLevelsRun

\* A str with at least one character.
NonEmptyString(opt) == opt /= None /\ \A text \in opt : Len(text) > 0

C8_State ==
    Returned =>
        /\ result_status \in {"completed", "failed"}
        /\ (result_status = "failed") => NonEmptyString(result_error)

C8_Step ==
    (result_status' /= result_status) =>
        \/ result_status = "none" /\ result_status' = "running"
        \/ result_status = "running" /\ result_status' \in {"completed", "failed"}

\* C8: a returned WorkflowResult is completed or failed, never running; the
\* status only moves from running to completed or to failed; a failed result
\* has a non-empty error.
C8_TerminalStatus == []C8_State /\ [][C8_Step]_vars

\* A run stopped by the failure of step A.
C8_Witness ==
    /\ Returned
    /\ result_status = "failed"
    /\ result_error = Some(<<"Step", "A", "failed:", "agent error">>)

\* C9: no exception escapes execute.
C9_NeverRaises == pc /= "raised"

\* C10: a run still in flight when workflow.config.timeout elapses returns
\* status failed with the workflow-timeout error.
C10_TimeoutEnforced ==
    (Returned /\ deadline_passed) =>
        (result_status = "failed" /\ result_error = WorkflowTimeoutError)

\* ------------------------------------------------------------ step results
PosOfId(id) == CHOOSE p \in 1..Len(steps) : steps[p].id = id

TimeoutResult(id) ==
    [step_id |-> id, status |-> "failed", output |-> Null,
     error |-> Some(<<"Step execution timed out after", StepTimeout, "seconds">>),
     execution_time |-> "elapsed"]

\* The result a step owes to what its own agent did.
OwnResult(p) ==
    LET event == trace[p].event IN
    CASE event.kind = "timeout" -> TimeoutResult(steps[p].id)
      [] event.kind = "raise" ->
            [step_id |-> steps[p].id, status |-> "failed", output |-> Null,
             error |-> Some(AgentExceptionText), execution_time |-> "elapsed"]
      [] event.kind = "return" /\ event.result.success ->
            [step_id |-> steps[p].id, status |-> "completed",
             output |-> event.result.data, error |-> None,
             execution_time |-> "elapsed"]
      [] OTHER ->
            [step_id |-> steps[p].id, status |-> "failed", output |-> Null,
             error |-> event.result.error, execution_time |-> "elapsed"]

Dispatched(p) == p \in DOMAIN trace /\ trace[p].path = "dispatched"

TimedOut(p) == Dispatched(p) /\ trace[p].event.kind = "timeout"

\* C11: a step whose agent has not returned by step.timeout ends with a failed
\* StepResult whose error names step.timeout, and in the batch it belongs to
\* every other step whose agent was awaited ends with the result of what its
\* own agent did, both as _execute_step returns them and in the dict the
\* batch executor returns.
C11_StepTimeout ==
    /\ (pc = "batch") =>
          \A m \in DOMAIN task_results :
              LET p == step_batch[m] IN
                  /\ TimedOut(p) => task_results[m] = TimeoutResult(steps[p].id)
                  /\ Dispatched(p) => task_results[m] = OwnResult(p)
    /\ (pc = "merge") =>
          /\ Len(batch_results) = Len(step_batch)
          /\ \A n \in 1..Len(batch_results) :
              LET p == PosOfId(batch_results[n].key) IN
                  /\ TimedOut(p) => batch_results[n].value = TimeoutResult(steps[p].id)
                  /\ Dispatched(p) => batch_results[n].value = OwnResult(p)

\* A parallel batch has returned with one step timed out and a sibling that
\* completed with the output of its agent.
C11_Witness ==
    /\ pc = "merge"
    /\ UseParallel
    /\ \E n1, n2 \in 1..Len(batch_results) :
          /\ TimedOut(PosOfId(batch_results[n1].key))
          /\ batch_results[n1].value.status = "failed"
          /\ batch_results[n2].value.status = "completed"
          /\ batch_results[n2].value.output = OutputDict

AgentRaised(p) == Dispatched(p) /\ trace[p].event.kind = "raise"

AgentSucceeded(p) ==
    /\ Dispatched(p)
    /\ trace[p].event.kind = "return"
    /\ trace[p].event.result.success

ParallelLevel(k) == parallel_execution /\ Len(levels[k]) > 1

\* C12: when execute has returned, in every level run in parallel in which
\* the agent of one step raised, that step has a failed StepResult in
\* result.step_results and every step of the level whose agent succeeded has
\* a completed one there, wherever the raising step stands in the level.
C12_ParallelIsolation ==
    Returned =>
        \A k \in 1..Len(levels) :
            (ParallelLevel(k) /\ \E p \in LevelPositions(k) : AgentRaised(p)) =>
                \A q \in LevelPositions(k) :
                    /\ AgentRaised(q) =>
                          /\ steps[q].id \in DOMAIN step_results
                          /\ step_results[steps[q].id].status = "failed"
                    /\ AgentSucceeded(q) =>
                          /\ steps[q].id \in DOMAIN step_results
                          /\ step_results[steps[q].id].status = "completed"

\* The engine has decided what follows the level whose batch returned last:
\* the rollback hook, the end of the run as failed, or the next level.
Decided ==
    \/ pc = "rollback"
    \/ pc = "final" /\ result_status = "failed"
    \/ pc = "loop" /\ level_idx > 1

ReturnedLevel == IF pc = "loop" THEN level_idx - 1 ELSE level_idx

\* C13: once the engine has decided whether to go on after a level, every
\* step of that level is in context.completed_steps and has its StepResult
\* in result.step_results, under each on_failure policy.
C13_LevelMerged ==
    Decided =>
        \A p \in LevelPositions(ReturnedLevel) :
            /\ steps[p].id \in Range(completed_steps)
            /\ steps[p].id \in DOMAIN step_results

\* --------------------------------------------------- properties of a step
\* A call of _execute_step is under way or has returned.
StepCalled == pc \in {"step_await", "step_returned"}

CalledCondition == CHOOSE c \in trace[1].condition : TRUE

\* The value the condition's field resolves to in the context of the call.
SeenValue == GetContextValue(CalledCondition.field, step_outputs, variables)

\* The condition of the call is one that evaluates to false.
EvaluatesFalse ==
    LET c == CalledCondition
        seen == SeenValue IN
    \/ c.operator \notin KnownOperators
    \/ c.operator = "equals" /\ ~PyEq(seen, c.value)
    \/ c.operator = "not_equals" /\ PyEq(seen, c.value)
    \/ c.operator = "contains" /\ c.value.t = "str"
          /\ ~Contains(PyStr(seen), c.value.v)
    \/ c.operator = "greater_than" /\ FloatDefined(seen) /\ FloatDefined(c.value)
          /\ FloatOf(seen) <= FloatOf(c.value)
    \/ c.operator = "less_than" /\ FloatDefined(seen) /\ FloatDefined(c.value)
          /\ FloatOf(seen) >= FloatOf(c.value)

\* C14: a step whose condition evaluates to false (an operator that is not
\* recognised included) returns without an agent created or awaited; its
\* StepResult is completed, its output carries skipped = True, its execution
\* time is 0, and the failure check of execute takes no action on it.
C14_SkippedStep ==
    (StepCalled /\ trace[1].condition /= None /\ EvaluatesFalse) =>
        /\ pc = "step_returned"
        /\ trace[1].path = "skipped"
        /\ trace[1].event = NoEvent
        /\ in_flight = {}
        /\ agent_inputs = <<>>
        /\ task_results[1].status = "completed"
        /\ task_results[1].output.t = "dict"
        /\ task_results[1].output.d["skipped"] = Bool(TRUE)
        /\ task_results[1].execution_time = "0.0"
        /\ FailureAction(task_results[1]) = "none"

\* A step is skipped on a condition whose operator is not recognised, in a
\* run that stops on failures.
C14_Witness ==
    /\ pc = "step_returned"
    /\ trace[1].condition /= None
    /\ CalledCondition.operator = "matches"
    /\ task_results[1].output = SkippedOutput
    /\ on_failure = "stop"

\* The condition of the call is one whose evaluation raises: a float() of
\* something that is no number, or a contains with a value that is no str.
EvaluationRaises ==
    LET c == CalledCondition
        seen == SeenValue IN
    \/ c.operator \in {"greater_than", "less_than"}
          /\ (~FloatDefined(seen) \/ ~FloatDefined(c.value))
    \/ c.operator = "contains" /\ c.value.t /= "str"

ConditionPasses == trace[1].condition = None \/ (~EvaluationRaises /\ ~EvaluatesFalse)

FailedWith(step_result, text) ==
    /\ step_result.status = "failed"
    /\ step_result.step_id = CalledStepId
    /\ step_result.error = Some(text)

\* C15: every call of _execute_step returns a StepResult.  An exception of
\* the condition's evaluation, of the agent's creation (agent_type unknown)
\* or of the agent's execute gives a failed StepResult with the text of the
\* exception as error, and in the first two cases no agent is awaited.
C15_StepNeverRaises ==
    /\ pc = "step_returned" =>
          /\ Len(task_results) = 1
          /\ task_results[1].status \in {"completed", "failed"}
    /\ (StepCalled /\ trace[1].condition /= None /\ EvaluationRaises) =>
          /\ pc = "step_returned"
          /\ trace[1].path = "failed"
          /\ trace[1].event = NoEvent
          /\ in_flight = {}
          /\ ConditionException(CalledCondition, SeenValue) /= None
          /\ FailedWith(task_results[1], Str(ConditionException(CalledCondition, SeenValue)))
    /\ (StepCalled /\ ConditionPasses /\ trace[1].agent_type \notin {"task", "decision"}) =>
          /\ pc = "step_returned"
          /\ trace[1].path = "failed"
          /\ trace[1].event = NoEvent
          /\ in_flight = {}
          /\ FailedWith(task_results[1], <<"Unknown agent type:", trace[1].agent_type>>)
    /\ (pc = "step_returned" /\ trace[1].event.kind = "raise") =>
          FailedWith(task_results[1], AgentExceptionText)

\* A greater_than condition on a field that resolves to None has failed the
\* step before any agent was created.
C15_Witness ==
    /\ pc = "step_returned"
    /\ trace[1].condition /= None
    /\ CalledCondition.operator = "greater_than"
    /\ SeenValue = Null
    /\ trace[1].agent_type = "custom"
    /\ task_results[1].status = "failed"
    /\ task_results[1].error = Some(<<"float() argument must be a string or a real number">>)

\* ----------------------------------------------- properties of the resolver
LastCall == trace[Len(trace)]

\* C16: once step S has completed with a map O as output and execute has
\* stored its result, an input whose value is the template {{S.output.k}},
\* k a key of O, resolves to O[k].
C16_OutputTemplate ==
    (pc = "resolved" /\ LastCall.inputs["in"].t = "template") =>
        LET path == LastCall.inputs["in"].path IN
        (/\ Len(path) = 3
         /\ path[2] = "output"
         /\ path[1] \in DOMAIN step_results
         /\ step_results[path[1]].status = "completed"
         /\ step_results[path[1]].output.t = "dict"
         /\ path[3] \in DOMAIN step_results[path[1]].output.d)
        => LastCall.resolved["in"] = step_results[path[1]].output.d[path[3]]

RECURSIVE WalkFails(_, _)
\* Walking parts from value meets a segment that is missing or a value that
\* is no map.
WalkFails(value, parts) ==
    /\ parts /= <<>>
    /\ \/ value.t /= "dict"
       \/ Head(parts) \notin DOMAIN value.d
       \/ WalkFails(value.d[Head(parts)], Tail(parts))

TemplateResolved == pc = "resolved" /\ LastCall.inputs["in"].t = "template"

ResolvedPath == LastCall.inputs["in"].path

\* The path starts with the id of a step that has no recorded output.
NamesStepWithoutOutput ==
    /\ ResolvedPath[1] \in {StoredStepId, CalledStepId}
    /\ ResolvedPath[1] \notin DOMAIN step_outputs

\* The path starts with the id of a step with a recorded output in which the
\* rest of the path cannot be walked.
WalkFailsInOutput ==
    /\ ResolvedPath[1] \in DOMAIN step_outputs
    /\ WalkFails(step_outputs[ResolvedPath[1]], Tail(ResolvedPath))

\* C17 (as stated): a template whose path names a step without recorded
\* output, misses a segment or walks into a value that is no map resolves
\* to None.
C17_AsStated ==
    (TemplateResolved /\ (NamesStepWithoutOutput \/ WalkFailsInOutput)) =>
        LastCall.resolved["in"] = Null

\* C17 (amended): a template whose path misses a segment or walks into a
\* value that is no map resolves to None; one whose first segment has no
\* recorded output resolves to context.variables.get(whole path), which is
\* None unless the variables have a key equal to the path.
C17_Resolution ==
    /\ (TemplateResolved /\ WalkFailsInOutput) => LastCall.resolved["in"] = Null
    /\ (TemplateResolved /\ ResolvedPath[1] \notin DOMAIN step_outputs) =>
          LastCall.resolved["in"] =
              IF ResolvedPath \in DOMAIN variables THEN variables[ResolvedPath] ELSE Null

\* {{A.x.y}} has been resolved to None against an output {"x": 5} of A, and
\* before it {{B.x}} for a step B that has not run.
C17_Witness ==
    /\ pc = "resolved"
    /\ Len(trace) = 2
    /\ trace[1].inputs["in"] = Template(<<"B", "x">>)
    /\ trace[1].resolved["in"] = Null
    /\ trace[2].inputs["in"] = Template(<<"A", "x", "y">>)
    /\ StoredStepId \in DOMAIN step_outputs
    /\ step_outputs[StoredStepId] = OutputDict
    /\ trace[2].resolved["in"] = Null

\* A step of the behaviour in which _resolve_inputs is called and returns.
C18_Step ==
    (pc \in {"step_idle", "resolved"} /\ pc' = "resolved") =>
        /\ completed_steps' = completed_steps
        /\ step_outputs' = step_outputs
        /\ variables' = variables
        /\ current_step' = current_step
        /\ (Len(trace') = 2 /\ trace'[1].inputs = trace'[2].inputs) =>
              trace'[1].resolved = trace'[2].resolved

LastStepId == steps[Len(steps)].id

\* C19: when execute returns completed for a workflow whose last declared
\* step has a StepResult, result.final_output is the output of that
\* StepResult, whatever that output is.
C19_FinalOutput ==
    (/\ Returned
     /\ result_status = "completed"
     /\ steps /= <<>>
     /\ LastStepId \in DOMAIN step_results)
    => final_output = step_results[LastStepId].output

\* --------------------------------------------------------------- the chain
\* The run of the chain started with {"n": 0}, each input n wired from the
\* step before in the {{S.output.n}} form, with agents that return n + 1.
ChainRun ==
    /\ steps = ChainSteps
    /\ agents \in {"increment", "increment_wrapped"}
    /\ step_inputs = ChainStepInputs("output")
    /\ variables = ChainInput

\* C20: the run of the chain fetch -> enrich -> score started with {"n": 0}
\* returns status completed and final_output {"n": 3}.
C20_ChainResult ==
    (Returned /\ ChainRun) =>
        /\ result_status = "completed"
        /\ final_output = Dict([k \in {"n"} |-> Num(3)])

\* ------------------------------------------------ calls of execute, one engine
\* Several calls of execute on one engine.  The body of execute (lines
\* 60-128) never touches running_workflows, so a call is followed through
\* three points: its start up to the try (lines 46-58), the end of its body,
\* and its finally block.  The coroutines interleave at the awaits of the
\* body.
Calls == 1..MaxCalls

WorkflowIds == {WorkflowId, "wf2"}

\* How the body of execute ends (line 113, lines 93-102, lines 120-128).
BodyOutcomes ==
    {[how |-> "completed", status |-> "completed"],
     [how |-> "stopped", status |-> "failed"],
     [how |-> "rolled_back", status |-> "failed"],
     [how |-> "exception", status |-> "failed"]}

NotCalled == [pc |-> "idle", workflow_id |-> WorkflowId, how |-> "none",
              status |-> "none", replaced |-> FALSE]

\* Lines 46-58 for call c: the context is built and stored under workflow.id.
CallExecute(c, workflow_id, initial_input) ==
    /\ pc = "calls"
    /\ calls[c].pc = "idle"
    /\ IF initial_input = "list"
       THEN /\ calls' = [calls EXCEPT ![c].pc = "raised", ![c].workflow_id = workflow_id]
            /\ UNCHANGED running_workflows
       ELSE /\ calls' = [calls EXCEPT ![c].pc = "running",
                                      ![c].workflow_id = workflow_id,
                                      ![c].status = "running",
                                      ![c].replaced = workflow_id \in DOMAIN running_workflows]
            /\ running_workflows' = Put(running_workflows, workflow_id, c)
    /\ UNCHANGED <<graphVars, pc, configVars, batchVars, resultVars, contextVars, historyVars>>

\* Lines 60-128 for call c.
CallBody(c, outcome) ==
    /\ pc = "calls"
    /\ calls[c].pc = "running"
    /\ calls' = [calls EXCEPT ![c].pc = "finally", ![c].how = outcome.how,
                              ![c].status = outcome.status]
    /\ UNCHANGED <<graphVars, pc, configVars, batchVars, resultVars, contextVars,
                   running_workflows, historyVars>>

\* Lines 130-144 for call c.
CallFinally(c) ==
    /\ pc = "calls"
    /\ calls[c].pc = "finally"
    /\ running_workflows' = RegistryAfterReturn(running_workflows, calls[c].workflow_id)
    /\ calls' = [calls EXCEPT ![c].pc = "done"]
    /\ UNCHANGED <<graphVars, pc, configVars, batchVars, resultVars, contextVars, historyVars>>

InitCalls ==
    /\ steps = <<>>
    /\ levels = <<>>
    /\ completed = {}
    /\ on_failure = "stop"
    /\ parallel_execution = FALSE
    /\ step_inputs = <<>>
    /\ agents = "any"
    /\ level_idx = 0
    /\ in_flight = {}
    /\ agent_inputs = <<>>
    /\ task_results = <<>>
    /\ batch_results = <<>>
    /\ merge_idx = 0
    /\ result_status = "none"
    /\ result_error = None
    /\ step_results = <<>>
    /\ final_output = Null
    /\ variables = <<>>
    /\ completed_steps = <<>>
    /\ step_outputs = <<>>
    /\ current_step = None
    /\ running_workflows = <<>>
    /\ calls = [c \in Calls |-> NotCalled]
    /\ executed = {}
    /\ trace = <<>>
    /\ rollback_calls = 0
    /\ deadline_passed = FALSE
    /\ pc = "calls"

NextCalls ==
    \/ \E c \in Calls : \E workflow_id \in WorkflowIds :
          \E initial_input \in {"none", "dict", "list"} :
              CallExecute(c, workflow_id, initial_input)
    \/ \E c \in Calls : \E outcome \in BodyOutcomes : CallBody(c, outcome)
    \/ \E c \in Calls : CallFinally(c)

SpecCalls == InitCalls /\ [][NextCalls]_vars

InFlight(c) == calls[c].pc \in {"running", "finally"}

\* C21: every call of execute in flight has an entry of its own in
\* running_workflows, from its start to its return, whatever other calls do.
C21_OwnEntry ==
    (pc = "calls") =>
        \A c \in Calls :
            InFlight(c) => \E key \in DOMAIN running_workflows : running_workflows[key] = c

C28_State ==
    (pc = "calls" /\ \A c \in Calls : ~InFlight(c)) => running_workflows = <<>>

C28_Step ==
    (pc = "calls") =>
        \A c \in Calls :
            (calls[c].pc = "finally" /\ calls'[c].pc /= "finally") =>
                /\ calls'[c].pc = "done"
                /\ calls[c].workflow_id \notin DOMAIN running_workflows'

\* C28: with no call of execute in flight running_workflows is empty; the
\* finally block of every call, however its body ended, returns with no entry
\* left under its workflow id, also when the entry was replaced or already
\* removed by an overlapping call of the same workflow id.
C28_RegistryCleanup == []C28_State /\ [][C28_Step]_vars

\* Two overlapping calls of the same workflow id have both returned, one of
\* them through the exception handler, and the registry is empty.
C28_Witness ==
    /\ pc = "calls"
    /\ \A c \in Calls : calls[c].pc = "done"
    /\ \E c \in Calls : calls[c].replaced
    /\ \E c \in Calls : calls[c].how = "exception"
    /\ running_workflows = <<>>

\* ------------------------------------------------------ the batch executor
\* C22: when the batch executor returns, every step of the level has been
\* executed, also those after a step that failed, and the mapping returned
\* holds one StepResult for each step id of the level and nothing else.
C22_BatchComplete ==
    (pc = "merge") =>
        /\ \A p \in LevelPositions(level_idx) : p \in executed
        /\ Len(batch_results) = Len(step_batch)
        /\ {batch_results[n].key : n \in 1..Len(batch_results)} = StepIdsOf(steps, step_batch)
        /\ \A n \in 1..Len(batch_results) :
              /\ batch_results[n].value.step_id = batch_results[n].key
              /\ batch_results[n].value.status \in {"completed", "failed"}

\* A batch has returned a failed result followed by the completed result of
\* a step whose agent ran.
C22_Witness ==
    /\ pc = "merge"
    /\ Len(batch_results) >= 2
    /\ batch_results[1].value.status = "failed"
    /\ batch_results[2].value.status = "completed"
    /\ batch_results[2].value.output = OutputDict

SequentialBatch == ~(parallel_execution /\ Len(step_batch) > 1)

\* C23: in a batch run sequentially the steps are taken in the order of the
\* level, which is their order in workflow.steps; a step begins only when
\* every step before it has returned its StepResult, and at most one step is
\* in flight.
C23_SequentialOrder ==
    (pc = "batch" /\ SequentialBatch) =>
        /\ Cardinality(in_flight) <= 1
        /\ \A m \in 1..(Len(step_batch) - 1) : step_batch[m] < step_batch[m + 1]
        /\ \A m \in BegunSlots : \A n \in 1..(m - 1) : n \in DOMAIN task_results
        /\ \A m \in in_flight : DOMAIN task_results = 1..(m - 1)

\* The second step of a sequential batch awaits its agent after the first
\* has returned.
C23_Witness ==
    /\ pc = "batch"
    /\ ~parallel_execution
    /\ Len(step_batch) >= 2
    /\ in_flight = {2}
    /\ DOMAIN task_results = {1}

\* --------------------------------------------- termination of the builder
\* A step of the while loop: it adds an id to completed, or it leaves the loop.
C24_Step ==
    (pc = "build") =>
        \/ /\ pc' = "build"
           /\ completed \subseteq completed'
           /\ completed' /= completed
           /\ Len(levels') = Len(levels) + 1
        \/ pc' \in {"graph_done", "graph_broken"}

\* C24: _build_dependency_graph returns on every step list, those with
\* cycles, self-dependencies, missing ids and duplicate ids included: each
\* scan adds a new id to completed or ends the loop.
C24_Terminates == [][C24_Step]_vars /\ <>GraphReturned

\* The builder has returned through the break on a list with a duplicate id,
\* after placing a level.
C24_Witness ==
    /\ pc = "graph_broken"
    /\ ~UniqueIds(steps)
    /\ levels /= <<>>
    /\ \E i \in 1..Len(steps) : steps[i].id \in steps[i].depends_on

\* ------------------------------------------------ unsatisfiable dependencies
RECURSIVE SatisfiableFrom(_)
\* The ids of the steps whose dependencies can all be satisfied, directly or
\* through other such steps: the least set closed under "all dependencies
\* are in the set".
SatisfiableFrom(ids) ==
    LET more == ids \cup {steps[p].id : p \in {q \in 1..Len(steps) : steps[q].depends_on \subseteq ids}} IN
    IF more = ids THEN ids ELSE SatisfiableFrom(more)

SatisfiableIds == SatisfiableFrom({})

GraphBuilt == pc \notin {"idle", "raised", "graph"}

\* C25: the levels hold exactly the steps whose dependencies are
\* transitively satisfiable; no other step is ever executed or gets a
\* StepResult; a run that goes through all its levels executes every
\* satisfiable step; and a run ends failed only through a failed step under
\* stop or rollback or through a caught exception, never because steps were
\* left out.
C25_ReachableOnly ==
    /\ GraphBuilt => UNION {StepIdsOf(steps, levels[k]) : k \in 1..Len(levels)} = SatisfiableIds
    /\ \A p \in executed : steps[p].id \in SatisfiableIds
    /\ DOMAIN step_results \subseteq SatisfiableIds
    /\ (Returned /\ result_status = "completed") =>
          \A p \in 1..Len(steps) :
              (steps[p].id \in SatisfiableIds) =>
                  (p \in executed /\ steps[p].id \in DOMAIN step_results)
    /\ (Returned /\ result_status = "failed") =>
          \/ ExceptionCaught
          \/ /\ on_failure \in {"stop", "rollback"}
             /\ \E id \in DOMAIN step_results : step_results[id].status = "failed"

\* A run has completed in which one step ran, one step depends on an id no
\* step carries and one step depends on itself.
C25_Witness ==
    /\ Returned
    /\ result_status = "completed"
    /\ executed /= {}
    /\ \E p \in 1..Len(steps) : \E dep \in steps[p].depends_on :
          \A q \in 1..Len(steps) : steps[q].id /= dep
    /\ \E p \in 1..Len(steps) : steps[p].id \in steps[p].depends_on


\* WorkflowConfig.max_retries (models.py line 64), at its default.
max_retries == 3

\* WorkflowStep.retry_on_failure (models.py line 40).  No line of the engine
\* reads the field or max_retries, so a run is the same for either value.
RetryOnFailure == BOOLEAN

\* The await of slot m ends in this step, with the StepResult of its agent.
AwaitEnds(m) == m \in in_flight /\ m \notin in_flight' /\ m \in DOMAIN task_results'

\* A step that has begun is not begun again: the one change left to its
\* record is the end of its await.
ExecutedOnce(p) ==
    p \in executed =>
       \/ trace'[p] = trace[p]
       \/ trace[p].event = NoEvent /\ trace'[p].event /= NoEvent

\* C26: a step with retry_on_failure = TRUE whose attempt fails while retries
\* remain (the await that ends is the first of the step, and max_retries >= 1)
\* is executed again instead of returning a failed result; a step with
\* retry_on_failure = FALSE is executed at most once.
C26_Step ==
    pc = "batch" =>
       \A retry_on_failure \in RetryOnFailure :
          \A m \in 1..Len(step_batch) :
             /\ (retry_on_failure /\ max_retries >= 1 /\ AwaitEnds(m))
                   => task_results'[m].status /= "failed"
             /\ ~retry_on_failure => ExecutedOnce(step_batch[m])

C26_RetryOnFailure == [][C26_Step]_vars


\* Some step result merged into WorkflowResult.step_results is failed.
SomeMergedFailed == \E id \in DOMAIN step_results : step_results[id].status = "failed"

\* The run returned without passing through the except block (lines 120-128).
ReturnedWithoutException == Returned /\ result_error /= ExecutionFailedError

\* C27: a call that returns without an exception caught at the boundary has
\* status failed exactly when on_failure is "stop" or "rollback" and some
\* merged step result is failed; otherwise (also under "continue" or any
\* other on_failure string, with failed steps) it has status completed and
\* no error.
C27_FailedIff ==
    ReturnedWithoutException =>
       /\ result_status \in {"failed", "completed"}
       /\ result_status = "failed" <=> (on_failure \in {"stop", "rollback"} /\ SomeMergedFailed)
       /\ result_status = "completed" => result_error = None

\* A run under a string that is no documented policy, with a failed step,
\* returned completed with no error.
C27_Witness ==
    /\ ReturnedWithoutException
    /\ on_failure \notin FailurePolicies
    /\ SomeMergedFailed
    /\ result_status = "completed"
    /\ result_error = None


\* The ids on context.completed_steps.
CompletedIds == {completed_steps[i] : i \in 1..Len(completed_steps)}

\* C30: in every state of a run, context.completed_steps holds no id twice,
\* its ids are the keys of WorkflowResult.step_results (failed steps
\* included), and every key of context.step_outputs is on completed_steps
\* and maps to the output of the StepResult recorded for it.
C30_ContextConsistent ==
    /\ \A i, j \in 1..Len(completed_steps) :
          (completed_steps[i] = completed_steps[j]) => (i = j)
    /\ CompletedIds = DOMAIN step_results
    /\ \A id \in DOMAIN step_outputs :
          /\ id \in CompletedIds
          /\ step_outputs[id] = step_results[id].output

\* A run that merged a failed step and a step with a stored output.
C30_Witness ==
    /\ Len(completed_steps) >= 2
    /\ \E id \in DOMAIN step_results : step_results[id].status = "failed"
    /\ DOMAIN step_outputs /= {}
    /\ DOMAIN step_outputs /= DOMAIN step_results


\* --------------------------------------- one workflow run in the two modes
\* execute is called on a workflow with parallel_execution = TRUE and, once
\* it has returned, on the same workflow with parallel_execution = FALSE and
\* the same initial_input.  The agents are deterministic functions of their
\* resolved inputs.  calls holds what the two calls share and the
\* WorkflowResult of the first.

\* Workflows of MaxSteps steps with a level of more than one step.
WideWorkflows ==
    {s \in Workflows :
        /\ Len(s) = MaxSteps
        /\ \E k \in 1..Len(BuildDependencyGraph(s)) : Len(BuildDependencyGraph(s)[k]) > 1}

\* step.inputs: one literal and a template {{id.x}} for every step listed
\* before this one, a dependency or not.
InputsOnEarlier(s, p) ==
    [k \in {"lit"} \cup {s[q].id : q \in 1..(p - 1)} |->
        IF k = "lit" THEN Num(1) ELSE Template(<<k, "x">>)]

AgentBehaviours == {"strict", "lenient", "fails"}

\* agent.execute(inputs) of a deterministic agent: "strict" fails and
\* "lenient" returns {} when an input is None, both return {"x": 5}
\* otherwise; "fails" always fails.
DeterministicAgent(behaviour, inputs) ==
    LET complete == \A k \in DOMAIN inputs : inputs[k] /= Null IN
    CASE behaviour = "fails" -> AgentReturns(AgentFailure)
      [] behaviour = "strict" ->
            AgentReturns(IF complete THEN AgentSuccess(OutputDict) ELSE AgentFailure)
      [] OTHER ->
            AgentReturns(AgentSuccess(IF complete THEN OutputDict ELSE EmptyDict))

\* step.condition per position: the first step may carry a condition.
ConditionLists ==
    {[p \in 1..MaxSteps |-> IF p = 1 THEN c ELSE None] : c \in EngineConditions}

NoResult == [status |-> "none", step_results |-> <<>>, final_output |-> Null]

InitModes ==
    /\ steps \in WideWorkflows
    /\ step_inputs = [p \in 1..Len(steps) |-> InputsOnEarlier(steps, p)]
    /\ agents = "any"
    /\ levels = <<>>
    /\ completed = {}
    /\ pc = "idle"
    /\ on_failure \in FailurePolicies
    /\ parallel_execution = TRUE
    /\ level_idx = 0
    /\ in_flight = {}
    /\ agent_inputs = <<>>
    /\ task_results = <<>>
    /\ batch_results = <<>>
    /\ merge_idx = 0
    /\ result_status = "none"
    /\ result_error = None
    /\ step_results = <<>>
    /\ final_output = Null
    /\ variables = <<>>
    /\ completed_steps = <<>>
    /\ step_outputs = <<>>
    /\ current_step = None
    /\ running_workflows = <<>>
    /\ calls \in [run : {1}, first : {NoResult},
                  initial_input : {"none", "dict"},
                  behaviour : [1..MaxSteps -> AgentBehaviours],
                  conditions : ConditionLists]
    /\ executed = {}
    /\ trace = <<>>
    /\ rollback_calls = 0
    /\ deadline_passed = FALSE

\* Lines 33-58 with the initial_input of the two calls.
ModesExecute == Execute(calls.initial_input)

\* _execute_step begins for slot m, with the condition of its step.
ModesStepBegin(m) ==
    /\ pc = "batch"
    /\ m <= Len(step_batch)
    /\ StepBegin(m, calls.conditions[step_batch[m]], "task")

\* The agent of slot m returns what its behaviour makes of its inputs.
ModesStepEnd(m) ==
    /\ pc = "batch"
    /\ m \in in_flight
    /\ StepEnd(m, DeterministicAgent(calls.behaviour[step_batch[m]], agent_inputs[m]))

\* The first call has returned its WorkflowResult; the caller keeps it and
\* sets parallel_execution = FALSE for the second call, which builds a new
\* context and a new result (lines 47-58).
SecondCall ==
    /\ pc = "done"
    /\ calls.run = 1
    /\ calls' = [calls EXCEPT !.run = 2,
                              !.first = [status |-> result_status,
                                         step_results |-> step_results,
                                         final_output |-> final_output]]
    /\ parallel_execution' = FALSE
    /\ pc' = "idle"
    /\ levels' = <<>>
    /\ completed' = {}
    /\ level_idx' = 0
    /\ in_flight' = {}
    /\ agent_inputs' = <<>>
    /\ task_results' = <<>>
    /\ batch_results' = <<>>
    /\ merge_idx' = 0
    /\ result_status' = "none"
    /\ result_error' = None
    /\ step_results' = <<>>
    /\ final_output' = Null
    /\ variables' = <<>>
    /\ completed_steps' = <<>>
    /\ step_outputs' = <<>>
    /\ current_step' = None
    /\ executed' = {}
    /\ trace' = <<>>
    /\ rollback_calls' = 0
    /\ UNCHANGED <<steps, on_failure, step_inputs, agents, running_workflows,
                   deadline_passed>>

NextModes ==
    \/ ModesExecute
    \/ ExecuteBuildGraph
    \/ NextBatch
    \/ \E m \in 1..MaxSteps : ModesStepBegin(m)
    \/ \E m \in 1..MaxSteps : ModesStepEnd(m)
    \/ BatchReturn
    \/ MergeItem
    \/ MergeEnd
    \/ RollbackWorkflow
    \/ RollbackFail
    \/ SetFinalStatus
    \/ Finally
    \/ SecondCall

SpecModes == InitModes /\ [][NextModes]_vars

\* The statuses and outputs of a step_results dict.
StatusesAndOutputs(results) ==
    [id \in DOMAIN results |-> <<results[id].status, results[id].output>>]

BothReturned == pc = "done" /\ calls.run = 2

C29_Step ==
    pc = "batch" => /\ step_outputs' = step_outputs
                    /\ completed_steps' = completed_steps

C29_SameResult ==
    BothReturned =>
       /\ StatusesAndOutputs(step_results) = StatusesAndOutputs(calls.first.step_results)
       /\ result_status = calls.first.status
       /\ final_output = calls.first.final_output

\* C29: while a level is executing, context.step_outputs and
\* context.completed_steps do not change; and with agents that are
\* deterministic functions of their resolved inputs, the call with
\* parallel_execution = TRUE and the call with parallel_execution = FALSE of
\* one workflow and initial input return the same step_results statuses and
\* outputs, the same status and the same final_output.
C29_ModesEquivalent == [][C29_Step]_vars /\ []C29_SameResult

\* Both calls have returned, a step failed and another stored its output.
C29_Witness ==
    /\ BothReturned
    /\ \E id \in DOMAIN step_results : step_results[id].status = "failed"
    /\ step_outputs /= <<>>
    /\ final_output /= Null

====
